---- MODULE Spec2Model ----
(***************************************************************************)
(* Model of virtual_camera.py: one VirtualCameraServer process with its    *)
(* main thread (start / stop), the shared VirtualCamera (FrameSource) and  *)
(* one MJPEGHandler thread per accepted connection (ThreadedHTTPServer).   *)
(*                                                                         *)
(* Granularity: one action per statement (or run of statements) of the     *)
(* code that touches state shared between threads or writes to a socket.   *)
(* A handler that is at a write and does not step is a handler blocked in  *)
(* that write.  A write on a connection whose peer has gone raises         *)
(* BrokenPipeError / ConnectionResetError.  A connection carries one GET   *)
(* request (protocol_version is HTTP/1.0: no keep-alive); its request line *)
(* either names an HTTP version or, as an HTTP/0.9 simple request, none.   *)
(*                                                                         *)
(* Specifications:                                                         *)
(*   Spec          one run of the program on a fresh file system, with its *)
(*                 viewers on both listeners (FairSpec: with scheduling).  *)
(*   LifecycleSpec start() and stop() over successive runs and over every  *)
(*                 file system a first run can find, repeated stop(); no   *)
(*                 viewers (handlers never write a field of the server or  *)
(*                 a file).                                                *)
(*   HttpOnlySpec  runs with --http-only, with viewers and repeated        *)
(*                 stop().                                                 *)
(***************************************************************************)
EXTENDS Integers, Sequences, FiniteSets, TLC

\* ------------------------------------------------------------- bounds
\* The viewers together read at most MaxParts parts; a viewer that is still
\* connected then stops reading, and the handler's next write blocks.
MaxParts == 2
\* Encoded buffers have 1..MaxBufferLen bytes.
MaxBufferLen == 2
\* The program is run at most MaxRuns times on the same file system.
MaxRuns == 2
\* stop() is called at most MaxStops times in a run.
MaxStops == 2

\* ------------------------------------------------------------- constants
Conns == {"c1", "c2"}
Listeners == {"https", "http"}
Paths == {"/stream", "/", "/unknown"}
\* self.request_version as BaseHTTPRequestHandler.parse_request sets it: the
\* version of the request line, HTTP/0.9 for a request line without one.
Versions == {"HTTP/0.9", "HTTP/1.1"}
NoHolder == "free"

\* A file of the file system: absent, or the PEM of the key pair that
\* generate_self_signed_cert made in run number pair (0: a pair that was there
\* before the first run).
Absent == [exists |-> FALSE, pair |-> 0]
PEM(p) == [exists |-> TRUE, pair |-> p]

NoFrame == [src |-> "None", seq |-> 0, good |-> FALSE]
NoBuffer == [len |-> 0, src |-> "None", seq |-> 0, by |-> "None"]

VARIABLES
  \* VirtualCameraServer
  use_https, use_http, ssl_context, server, virtual_camera, mainpc, exitCode,
  stops,
  \* the file system: os.path.dirname(cert_file), cert_file, key_file
  cert_dir, cert_file, key_file, run,
  \* VirtualCamera
  simulation_mode, cap, capOpened, frame_count, lock,
  \* one MJPEGHandler thread per connection
  state, pc, path, request_version, via, frame, ret, buffer, out, raised,
  \* environment
  peerGone,
  \* history: the number of synthetic fetches that have returned
  fetched

vars == <<use_https, use_http, ssl_context, server, virtual_camera, mainpc,
          exitCode, stops,
          cert_dir, cert_file, key_file, run,
          simulation_mode, cap, capOpened, frame_count, lock,
          state, pc, path, request_version, via, frame, ret, buffer, out, raised,
          peerGone, fetched>>

serverVars == <<use_https, use_http, ssl_context, server, virtual_camera, mainpc,
                exitCode, stops>>
fileVars == <<cert_dir, cert_file, key_file, run>>
cameraVars == <<simulation_mode, cap, capOpened, frame_count, lock>>
handlerVars == <<state, pc, path, request_version, via, frame, ret, buffer, out, raised>>
envVars == <<peerGone>>
historyVars == <<fetched>>

\* ------------------------------------------------------------- wire tokens
\* What a socket carries, as a sequence of tokens.  by is the handler whose
\* statement performed the write.
Tok(k, s, n, b, c) == [k |-> k, s |-> s, n |-> n, buf |-> b, by |-> c]

Boundary(c) == Tok("boundary", "--frame", 0, NoBuffer, c)
Header(name, s, n, c) == Tok(name, s, n, NoBuffer, c)
BlankLine(c) == Tok("blank", "", 0, NoBuffer, c)
Body(b, c) == Tok("body", "", b.len, b, c)
CRLF(c) == Tok("crlf", "", 0, NoBuffer, c)
Status(code, c) == Tok("status", "", code, NoBuffer, c)
Payload(s, c) == Tok("payload", s, 0, NoBuffer, c)

\* The process is running: no sys.exit, no crash.
Alive == mainpc \notin {"exited", "crashed"}

\* ------------------------------------------------------------- construction
\* VirtualCamera.__init__ and _initialize_camera: the camera state after
\* construction, for the --simulation flag and the outcome of cv2.VideoCapture.
OpenOutcomes == {"opened", "not_opened", "raises"}

InitializeCamera_nofallback(simArg, outcome) ==
  IF simArg \/ outcome = "raises"
    THEN [simulation_mode |-> TRUE, cap |-> "None", capOpened |-> FALSE]
    ELSE [simulation_mode |-> FALSE, cap |-> "VideoCapture",
          capOpened |-> (outcome = "opened")]
InitializeCamera(simArg, outcome) ==
  IF simArg
    THEN [simulation_mode |-> TRUE, cap |-> "None", capOpened |-> FALSE]
    ELSE IF outcome = "opened"
      THEN [simulation_mode |-> FALSE, cap |-> "VideoCapture", capOpened |-> TRUE]
      ELSE IF outcome = "not_opened"
        THEN [simulation_mode |-> TRUE, cap |-> "VideoCapture", capOpened |-> FALSE]
        ELSE [simulation_mode |-> TRUE, cap |-> "None", capOpened |-> FALSE]

\* The handler threads' variables when no connection has been accepted.
NoConnections ==
  /\ state = [c \in Conns |-> "Idle"]
  /\ pc = [c \in Conns |-> "idle"]
  /\ path = [c \in Conns |-> ""]
  /\ request_version = [c \in Conns |-> ""]
  /\ via = [c \in Conns |-> "None"]
  /\ frame = [c \in Conns |-> NoFrame]
  /\ ret = [c \in Conns |-> FALSE]
  /\ buffer = [c \in Conns |-> NoBuffer]
  /\ out = [c \in Conns |-> <<>>]
  /\ raised = [c \in Conns |-> "None"]
  /\ peerGone = [c \in Conns |-> FALSE]

\* main(), lines 444-460, and the constructors, lines 206-221 and 313-323: the
\* process when start() is called, for the flags --http-only / --https-only
\* and --simulation and the outcome of opening the device.
Constructed ==
  /\ use_https \in BOOLEAN
  /\ use_http \in BOOLEAN
  /\ ssl_context = FALSE
  /\ server = [l \in Listeners |-> "None"]
  /\ virtual_camera = [l \in Listeners |-> "None"]
  /\ mainpc = "start"
  /\ exitCode = -1
  /\ stops = 0
  /\ \E simArg \in BOOLEAN, outcome \in OpenOutcomes :
       LET cam == InitializeCamera(simArg, outcome) IN
         /\ simulation_mode = cam.simulation_mode
         /\ cap = cam.cap
         /\ capOpened = cam.capOpened
  /\ frame_count = 0
  /\ fetched = 0
  /\ lock = NoHolder
  /\ NoConnections

\* The file systems a first run can find: the files are in the directory.
FileSystems ==
  {fs \in [dir : BOOLEAN, cert : {Absent, PEM(0)}, key : {Absent, PEM(0)}] :
     (fs.cert.exists \/ fs.key.exists) => fs.dir}

\* A file system without the directory and the files.
Fresh == [dir |-> FALSE, cert |-> Absent, key |-> Absent]

FirstRun(fs) ==
  /\ cert_dir = fs.dir
  /\ cert_file = fs.cert
  /\ key_file = fs.key
  /\ run = 1

\* The server with its viewers: its first run, on a fresh file system.
Init == Constructed /\ FirstRun(Fresh)

\* ------------------------------------------------------------- main thread
\* sys.exit(status): the interpreter exits and takes the daemon threads along.
SysExit(status) ==
  /\ mainpc' = "exited"
  /\ exitCode' = status

\* start(), lines 330-338: with HTTPS enabled, the certificate directory is
\* created if it is not there (os.makedirs can raise, which the except clause
\* of start() turns into sys.exit(1)), then the two files are looked for.
MakedirsOutcomes == {"ok", "raises"}

\* line 330: the test that sends start() into the TLS provisioning.
HttpsRequested_always == TRUE
HttpsRequested == use_https

\* line 338: the test that sends start() to generate_self_signed_cert.
NeedGenerate_always == TRUE
NeedGenerate == ~cert_file.exists \/ ~key_file.exists

ProvisionTLS ==
  /\ mainpc = "start"
  /\ IF HttpsRequested
       THEN \E o \in MakedirsOutcomes :
              IF ~cert_dir /\ o = "raises"
                THEN /\ SysExit(1)
                     /\ UNCHANGED cert_dir
                ELSE /\ cert_dir' = TRUE
                     /\ mainpc' = IF NeedGenerate THEN "generate" ELSE "setup_ssl"
                     /\ UNCHANGED exitCode
       ELSE /\ mainpc' = "start_https"
            /\ UNCHANGED <<cert_dir, exitCode>>
  /\ UNCHANGED <<use_https, use_http, ssl_context, virtual_camera, server, stops,
                 cert_file, key_file, run,
                 cameraVars, handlerVars, envVars, historyVars>>

\* generate_self_signed_cert, lines 43-99, called at line 340: a new key pair
\* and its certificate; the certificate file is written first (lines 82-83),
\* the key file second (lines 86-91).  Any exception makes it return False,
\* and start() then disables HTTPS (line 342).
\*   raises_early : before the first file is opened for writing
\*   raises_late  : after the certificate file was written, before the key
\*                  file is opened for writing
GenerateOutcomes == {"ok", "raises_early", "raises_late"}

generate_self_signed_cert(o) ==
  /\ cert_file' = IF o = "raises_early" THEN cert_file ELSE PEM(run)
  /\ key_file' = IF o = "ok" THEN PEM(run) ELSE key_file

GenerateCert ==
  /\ mainpc = "generate"
  /\ \E o \in GenerateOutcomes :
       /\ generate_self_signed_cert(o)
       /\ use_https' = (o = "ok")
       /\ mainpc' = IF o = "ok" THEN "setup_ssl" ELSE "start_https"
  /\ UNCHANGED <<use_http, ssl_context, virtual_camera, server, exitCode, stops, cert_dir, run,
                 cameraVars, handlerVars, envVars, historyVars>>

\* setup_ssl_context, lines 102-111, called at line 345: load_cert_chain takes
\* a certificate and the private key of its pair; any exception makes
\* setup_ssl_context return None, and start() then disables HTTPS (line 348).
CanLoadCertChain_unchecked == TRUE
CanLoadCertChain ==
  /\ cert_file.exists
  /\ key_file.exists
  /\ cert_file.pair = key_file.pair

SetupSSLContext ==
  /\ mainpc = "setup_ssl"
  /\ \E built \in {b \in BOOLEAN : b => CanLoadCertChain} :
       /\ ssl_context' = built
       /\ use_https' = built
  /\ mainpc' = "start_https"
  /\ UNCHANGED <<use_http, server, virtual_camera, exitCode, stops, fileVars,
                 cameraVars, handlerVars, envVars, historyVars>>

\* The object that lines 353 and 368 store in the virtual_camera attribute of
\* a listener's server: self.virtual_camera, the instance made at line 319.
ServerCamera_own(l) == l
ServerCamera(l) == "self.virtual_camera"

\* start(), lines 351-363: the HTTPS listener; a failed bind raises OSError,
\* which the except clause of start() turns into sys.exit(1).
StartHTTPS ==
  /\ mainpc = "start_https"
  /\ IF use_https /\ ssl_context
       THEN \E bound \in BOOLEAN :
              IF bound
                THEN /\ server' = [server EXCEPT !["https"] = "serving"]
                     /\ virtual_camera' =
                          [virtual_camera EXCEPT !["https"] = ServerCamera("https")]
                     /\ mainpc' = "start_http"
                     /\ UNCHANGED exitCode
                ELSE /\ SysExit(1)
                     /\ UNCHANGED <<server, virtual_camera>>
       ELSE /\ mainpc' = "start_http"
            /\ UNCHANGED <<server, virtual_camera, exitCode>>
  /\ UNCHANGED <<use_https, use_http, ssl_context, stops, fileVars,
                 cameraVars, handlerVars, envVars, historyVars>>

\* start(), lines 366-376: the HTTP listener.
StartHTTP ==
  /\ mainpc = "start_http"
  /\ IF use_http
       THEN \E bound \in BOOLEAN :
              IF bound
                THEN /\ server' = [server EXCEPT !["http"] = "serving"]
                     /\ virtual_camera' =
                          [virtual_camera EXCEPT !["http"] = ServerCamera("http")]
                     /\ mainpc' = "running"
                     /\ UNCHANGED exitCode
                ELSE /\ SysExit(1)
                     /\ UNCHANGED <<server, virtual_camera>>
       ELSE /\ mainpc' = "running"
            /\ UNCHANGED <<server, virtual_camera, exitCode>>
  /\ UNCHANGED <<use_https, use_http, ssl_context, stops, fileVars,
                 cameraVars, handlerVars, envVars, historyVars>>

\* start(), lines 394-399: Ctrl+C in the sleep loop calls stop().
KeyboardInterrupt ==
  /\ mainpc = "running"
  /\ mainpc' = "stop_https"
  /\ stops' = stops + 1
  /\ UNCHANGED <<use_https, use_http, ssl_context, virtual_camera, server, exitCode, fileVars,
                 cameraVars, handlerVars, envVars, historyVars>>

\* stop(), one listener: shutdown() ends serve_forever, server_close() closes
\* the listening socket.  Handler threads are daemon threads: neither call
\* waits for them or signals them.  On a listener that was stopped before,
\* shutdown() finds serve_forever ended and returns, and server_close() closes
\* a closed socket.
StopListener_skip(l) == UNCHANGED server
StopListener_blocks(l) ==
  /\ server[l] # "closed"
  /\ server' = [server EXCEPT ![l] = IF @ = "None" THEN "None" ELSE "closed"]
StopListener(l) ==
  server' = [server EXCEPT ![l] = IF @ = "None" THEN "None" ELSE "closed"]

\* stop(), lines 407-410.
StopHTTPS ==
  /\ mainpc = "stop_https"
  /\ StopListener("https")
  /\ mainpc' = "stop_http"
  /\ UNCHANGED <<use_https, use_http, ssl_context, virtual_camera, exitCode, stops, fileVars,
                 cameraVars, handlerVars, envVars, historyVars>>

\* stop(), lines 412-417, and release(), line 290: the HTTP listener, then
\* the call of release() and its test of self.cap (set at construction only).
\* The lock is not taken.
StopHTTP ==
  /\ mainpc = "stop_http"
  /\ StopListener("http")
  /\ mainpc' = IF cap = "VideoCapture" THEN "cap_release" ELSE "stopped"
  /\ UNCHANGED <<use_https, use_http, ssl_context, virtual_camera, exitCode, stops, fileVars,
                 cameraVars, handlerVars, envVars, historyVars>>

\* release(), line 291: cap.release() returns; mainpc = "cap_release" is the
\* main thread inside that call.
ReleaseDevice_noop == UNCHANGED capOpened
ReleaseDevice == capOpened' = FALSE

CapRelease ==
  /\ mainpc = "cap_release"
  /\ ReleaseDevice
  /\ mainpc' = "stopped"
  /\ UNCHANGED <<use_https, use_http, ssl_context, virtual_camera, server, exitCode, stops,
                 fileVars, simulation_mode, cap, frame_count, lock,
                 handlerVars, envVars, historyVars>>

\* stop() has returned to start(), start() to main(): the process ends.
ProcessExit ==
  /\ mainpc = "stopped"
  /\ SysExit(0)
  /\ UNCHANGED <<use_https, use_http, ssl_context, virtual_camera, server, stops, fileVars,
                 cameraVars, handlerVars, envVars, historyVars>>

\* stop() is a public method: a caller of the class calls it once more after
\* it has returned.
StopAgain ==
  /\ mainpc = "stopped"
  /\ stops < MaxStops
  /\ mainpc' = "stop_https"
  /\ stops' = stops + 1
  /\ UNCHANGED <<use_https, use_http, ssl_context, virtual_camera, server, exitCode, fileVars,
                 cameraVars, handlerVars, envVars, historyVars>>

\* The program is run again after its process has exited, with any flags: a
\* new process, constructed as the first one was, on the file system the
\* earlier runs have left.
Restart ==
  /\ ~Alive
  /\ run < MaxRuns
  /\ run' = run + 1
  /\ use_https' \in BOOLEAN
  /\ use_http' \in BOOLEAN
  /\ ssl_context' = FALSE
  /\ server' = [l \in Listeners |-> "None"]
  /\ virtual_camera' = [l \in Listeners |-> "None"]
  /\ mainpc' = "start"
  /\ exitCode' = -1
  /\ stops' = 0
  /\ \E simArg \in BOOLEAN, outcome \in OpenOutcomes :
       LET cam == InitializeCamera(simArg, outcome) IN
         /\ simulation_mode' = cam.simulation_mode
         /\ cap' = cam.cap
         /\ capOpened' = cam.capOpened
  /\ frame_count' = 0
  /\ fetched' = 0
  /\ lock' = NoHolder
  /\ state' = [c \in Conns |-> "Idle"]
  /\ pc' = [c \in Conns |-> "idle"]
  /\ path' = [c \in Conns |-> ""]
  /\ request_version' = [c \in Conns |-> ""]
  /\ via' = [c \in Conns |-> "None"]
  /\ frame' = [c \in Conns |-> NoFrame]
  /\ ret' = [c \in Conns |-> FALSE]
  /\ buffer' = [c \in Conns |-> NoBuffer]
  /\ out' = [c \in Conns |-> <<>>]
  /\ raised' = [c \in Conns |-> "None"]
  /\ peerGone' = [c \in Conns |-> FALSE]
  /\ UNCHANGED <<cert_dir, cert_file, key_file>>

\* ------------------------------------------------------------- listeners
\* The port each client connects to: a run has at most one connection per
\* listener.
ListenerOf == [c \in Conns |-> IF c = "c1" THEN "https" ELSE "http"]

\* serve_forever of a listener accepts a connection, and ThreadingMixIn starts
\* a handler thread for it, which parses the request line.
Accept(c, p, v) ==
  /\ Alive
  /\ server[ListenerOf[c]] = "serving"
  /\ state[c] = "Idle"
  /\ state' = [state EXCEPT ![c] = "Negotiating"]
  /\ pc' = [pc EXCEPT ![c] = "do_GET"]
  /\ path' = [path EXCEPT ![c] = p]
  /\ request_version' = [request_version EXCEPT ![c] = v]
  /\ via' = [via EXCEPT ![c] = ListenerOf[c]]
  /\ UNCHANGED <<serverVars, fileVars, cameraVars, frame, ret, buffer, out, raised, envVars, historyVars>>

\* The peer of a connection closes its end.
PeerDisconnect(c) ==
  /\ Alive
  /\ state[c] \in {"Negotiating", "Streaming"}
  /\ ~peerGone[c]
  /\ peerGone' = [peerGone EXCEPT ![c] = TRUE]
  /\ UNCHANGED <<serverVars, fileVars, cameraVars, handlerVars, historyVars>>

\* ------------------------------------------------------------- MJPEGHandler
\* The socket a handler writes to: its own self.wfile.
wfile_shared(c) == "c1"
wfile(c) == c

\* Number of parts begun on a byte stream.
RECURSIVE NParts(_)
NParts(s) ==
  IF s = <<>> THEN 0
  ELSE (IF Head(s).k = "boundary" THEN 1 ELSE 0) + NParts(Tail(s))

\* Number of parts begun on all connections.
RECURSIVE TotalParts(_)
TotalParts(S) ==
  IF S = {} THEN 0
  ELSE LET c == CHOOSE x \in S : TRUE IN NParts(out[c]) + TotalParts(S \ {c})

\* The locals of the streaming loop, dead once a tick has ended.
ClearLocals(c) ==
  /\ frame' = [frame EXCEPT ![c] = NoFrame]
  /\ ret' = [ret EXCEPT ![c] = FALSE]
  /\ buffer' = [buffer EXCEPT ![c] = NoBuffer]

\* An exception leaves do_GET: the handler thread finishes the request and the
\* connection is closed.
Raise_all(c, e) ==
  /\ state' = [d \in Conns |-> IF state[d] = "Idle" THEN "Idle" ELSE "Closed"]
  /\ pc' = [d \in Conns |-> IF state[d] = "Idle" THEN "idle" ELSE "done"]
  /\ raised' = [raised EXCEPT ![c] = e]
  /\ ClearLocals(c)
Raise(c, e) ==
  /\ state' = [state EXCEPT ![c] = "Closed"]
  /\ pc' = [pc EXCEPT ![c] = "done"]
  /\ raised' = [raised EXCEPT ![c] = e]
  /\ ClearLocals(c)

\* self.wfile.write(toks), then go to next; next = "get_frame" ends the tick.
Write(c, toks, next) ==
  IF peerGone[c]
    THEN /\ Raise(c, "BrokenPipeError")
         /\ UNCHANGED out
    ELSE /\ out' = [out EXCEPT ![wfile(c)] = @ \o toks]
         /\ pc' = [pc EXCEPT ![c] = next]
         /\ IF next = "get_frame" THEN ClearLocals(c)
                                  ELSE UNCHANGED <<frame, ret, buffer>>
         /\ UNCHANGED <<state, raised>>

\* send_response, send_header and end_headers are the methods MJPEGHandler
\* inherits from BaseHTTPRequestHandler (line 114): they collect the status
\* line, the headers and the blank line in the header buffer, which
\* end_headers writes to wfile -- unless the request is an HTTP/0.9 simple
\* request, for which all three do nothing.
SendResponse(c, code) ==
  IF request_version[c] # "HTTP/0.9" THEN <<Status(code, c)>> ELSE <<>>

SendHeader(c, name, s, n) ==
  IF request_version[c] # "HTTP/0.9" THEN <<Header(name, s, n, c)>> ELSE <<>>

EndHeaders(c) ==
  IF request_version[c] # "HTTP/0.9" THEN <<BlankLine(c)>> ELSE <<>>

\* lines 120-125.
Preamble(c) ==
  SendResponse(c, 200)
    \o SendHeader(c, "Content-Type", "multipart/x-mixed-replace; boundary=frame", 0)
    \o SendHeader(c, "Cache-Control", "no-cache, no-store, must-revalidate", 0)
    \o SendHeader(c, "Pragma", "no-cache", 0)
    \o SendHeader(c, "Expires", "0", 0)
    \o EndHeaders(c)

\* lines 147-149 and 192.
RootPage(c) ==
  SendResponse(c, 200) \o SendHeader(c, "Content-Type", "text/html", 0)
    \o EndHeaders(c) \o <<Payload("html", c)>>

\* lines 194-196.
NotFound(c) ==
  SendResponse(c, 404) \o EndHeaders(c) \o <<Payload("Not Found", c)>>

\* line 119: the test of self.path.
IsStreamPath(p) == p = "/stream"

\* do_GET, lines 119-125, 145-149, 192-196: the dispatch on self.path.  The
\* writes before the try block raise out of do_GET when the peer has gone; an
\* empty header buffer is not written.
DoGET(c) ==
  /\ Alive
  /\ pc[c] = "do_GET"
  /\ LET toks == IF IsStreamPath(path[c]) THEN Preamble(c)
                 ELSE IF path[c] = "/" THEN RootPage(c) ELSE NotFound(c)
     IN IF peerGone[c] /\ toks # <<>>
          THEN /\ Raise(c, "BrokenPipeError")
               /\ UNCHANGED out
          ELSE /\ UNCHANGED <<raised, frame, ret, buffer>>
               /\ out' = [out EXCEPT ![wfile(c)] = @ \o toks]
               /\ IF IsStreamPath(path[c])
                    THEN /\ state' = [state EXCEPT ![c] = "Streaming"]
                         /\ pc' = [pc EXCEPT ![c] = "get_frame"]
                    ELSE /\ state' = [state EXCEPT ![c] = "Closed"]
                         /\ pc' = [pc EXCEPT ![c] = "done"]
  /\ UNCHANGED <<serverVars, fileVars, cameraVars, path, request_version, via, envVars, historyVars>>

\* line 274: with self.lock waits until no thread holds the lock.
LockFree_unguarded == TRUE
LockFree == lock = NoHolder

\* get_frame, lines 274-278 and 285-286: take the lock and choose the branch.
\* With no opened device the call returns None at once.
GetFrame(c) ==
  /\ Alive
  /\ pc[c] = "get_frame"
  /\ LockFree
  /\ IF simulation_mode
       THEN /\ lock' = c
            /\ pc' = [pc EXCEPT ![c] = "generate"]
       ELSE IF cap = "VideoCapture" /\ capOpened
         THEN /\ lock' = c
              /\ pc' = [pc EXCEPT ![c] = "read"]
         ELSE /\ pc' = [pc EXCEPT ![c] = "got"]
              /\ UNCHANGED lock
  /\ UNCHANGED <<serverVars, fileVars, simulation_mode, cap, capOpened, frame_count,
                 state, path, request_version, via, frame, ret, buffer, out, raised, envVars, historyVars>>

\* Leaving the with block of get_frame.
Unlock_late(c) == UNCHANGED lock
Unlock(c) == lock' = IF lock = c THEN NoHolder ELSE lock

\* _generate_synthetic_frame, lines 247-268: the image is drawn, its marker
\* at the place that frame_count gives (lines 259-260).  The handler is inside
\* the generator from GetFrame to Count.
Generate(c) ==
  /\ Alive
  /\ pc[c] = "generate"
  /\ frame' = [frame EXCEPT ![c] =
                 [src |-> "synthetic", seq |-> frame_count, good |-> TRUE]]
  /\ pc' = [pc EXCEPT ![c] = "count"]
  /\ UNCHANGED <<serverVars, fileVars, cameraVars,
                 state, path, request_version, via, ret, buffer, out, raised,
                 envVars, historyVars>>

\* self.frame_count += 1
NextCount_stuck(n) == n
NextCount(n) == n + 1

\* _generate_synthetic_frame, lines 269-270, and the return of get_frame (276):
\* the store of self.frame_count += 1, whose operand is the value the
\* generator has read, then the return, which leaves the with block.
Count(c) ==
  /\ Alive
  /\ pc[c] = "count"
  /\ frame_count' = NextCount(frame[c].seq)
  /\ fetched' = fetched + 1
  /\ Unlock(c)
  /\ pc' = [pc EXCEPT ![c] = "got"]
  /\ UNCHANGED <<serverVars, fileVars, simulation_mode, cap, capOpened,
                 state, path, request_version, via, frame, ret, buffer, out, raised,
                 envVars>>

\* get_frame, lines 279-284: cap.read() returns a frame (one the encoder
\* accepts, or a corrupt one) or fails.  While cap.release() runs in the main
\* thread, or after it has run, the read was racing with it and the native
\* call may as well raise or take the process down.
ReadOutcomes ==
  IF capOpened /\ mainpc # "cap_release"
    THEN {"frame", "corrupt", "failed"}
    ELSE {"frame", "corrupt", "failed", "raises", "crash"}

Read(c) ==
  /\ Alive
  /\ pc[c] = "read"
  /\ \E o \in ReadOutcomes :
       IF o \in {"frame", "corrupt", "failed"}
         THEN /\ frame' = [frame EXCEPT ![c] =
                             IF o = "failed" THEN NoFrame
                             ELSE [src |-> "device", seq |-> 0, good |-> (o = "frame")]]
              /\ pc' = [pc EXCEPT ![c] = "got"]
              /\ Unlock(c)
              /\ UNCHANGED <<state, raised, mainpc, ret, buffer>>
         ELSE IF o = "raises"
           THEN /\ Raise(c, "cv2.error")
                /\ Unlock(c)
                /\ UNCHANGED mainpc
           ELSE /\ mainpc' = "crashed"
                /\ UNCHANGED <<frame, pc, state, raised, ret, buffer, lock>>
  /\ UNCHANGED <<use_https, use_http, ssl_context, virtual_camera, server, exitCode, stops,
                 fileVars, simulation_mode, cap, capOpened, frame_count,
                 path, request_version, via, out, envVars, historyVars>>

\* cv2.imencode: ret and the encoded buffer of a frame.
EncodedLen(f) == 1 + (f.seq % MaxBufferLen)

imencode(f, c) ==
  IF f.good
    THEN [ret |-> TRUE,
          buffer |-> [len |-> EncodedLen(f), src |-> f.src, seq |-> f.seq, by |-> c]]
    ELSE [ret |-> FALSE, buffer |-> NoBuffer]

\* lines 131, 134 and 142: a tick without a part falls through to the sleep
\* and the loop goes round.
SkipTick_break(c) == Raise(c, "None")
SkipTick(c) ==
  /\ pc' = [pc EXCEPT ![c] = "get_frame"]
  /\ ClearLocals(c)
  /\ UNCHANGED <<state, raised>>

\* line 134: if ret.
Encoded_unchecked(e) == TRUE
Encoded(e) == e.ret

\* do_GET, lines 131-134 and 142: the None test and the encoding.
Encode(c) ==
  /\ Alive
  /\ pc[c] = "got"
  /\ IF frame[c] = NoFrame
       THEN SkipTick(c)
       ELSE LET e == imencode(frame[c], c) IN
              IF Encoded(e)
                THEN /\ ret' = [ret EXCEPT ![c] = e.ret]
                     /\ buffer' = [buffer EXCEPT ![c] = e.buffer]
                     /\ pc' = [pc EXCEPT ![c] = "w_boundary"]
                     /\ UNCHANGED <<frame, state, raised>>
                ELSE SkipTick(c)
  /\ UNCHANGED <<serverVars, fileVars, cameraVars, path, request_version, via, out, envVars, historyVars>>

\* do_GET, line 136.  Once MaxParts parts were read, a peer that stays
\* connected reads no more: the write blocks.
WriteBoundary(c) ==
  /\ Alive
  /\ pc[c] = "w_boundary"
  /\ peerGone[c] \/ TotalParts(Conns) < MaxParts
  /\ Write(c, <<Boundary(c)>>, "w_headers")
  /\ UNCHANGED <<serverVars, fileVars, cameraVars, path, request_version, via, envVars, historyVars>>

\* The headers of a part, lines 137-139.
PartHeaders(c) ==
  SendHeader(c, "Content-Type", "image/jpeg", 0)
    \o SendHeader(c, "Content-Length", "", buffer[c].len)
    \o EndHeaders(c)

\* do_GET, lines 137-139: send_header buffers the two headers, end_headers
\* adds the blank line and flushes the buffer in one write; with nothing
\* buffered there is no write.
WriteHeaders(c) ==
  /\ Alive
  /\ pc[c] = "w_headers"
  /\ IF PartHeaders(c) = <<>>
       THEN /\ pc' = [pc EXCEPT ![c] = "w_body"]
            /\ UNCHANGED <<state, raised, out, frame, ret, buffer>>
       ELSE Write(c, PartHeaders(c), "w_body")
  /\ UNCHANGED <<serverVars, fileVars, cameraVars, path, request_version, via, envVars, historyVars>>

\* do_GET, line 140.
WriteBody(c) ==
  /\ Alive
  /\ pc[c] = "w_body"
  /\ Write(c, <<Body(buffer[c], c)>>, "w_crlf")
  /\ UNCHANGED <<serverVars, fileVars, cameraVars, path, request_version, via, envVars, historyVars>>

\* do_GET, lines 141-142: the trailing CRLF, then the sleep before the next tick.
WriteCRLF(c) ==
  /\ Alive
  /\ pc[c] = "w_crlf"
  /\ Write(c, <<CRLF(c)>>, "get_frame")
  /\ UNCHANGED <<serverVars, fileVars, cameraVars, path, request_version, via, envVars, historyVars>>

\* ------------------------------------------------------------- specification
MainStep ==
  \/ ProvisionTLS
  \/ GenerateCert
  \/ SetupSSLContext
  \/ StartHTTPS
  \/ StartHTTP
  \/ KeyboardInterrupt
  \/ StopHTTPS
  \/ StopHTTP
  \/ CapRelease
  \/ ProcessExit

HandlerStep(c) ==
  \/ DoGET(c)
  \/ GetFrame(c)
  \/ Generate(c)
  \/ Count(c)
  \/ Read(c)
  \/ Encode(c)
  \/ WriteBoundary(c)
  \/ WriteHeaders(c)
  \/ WriteBody(c)
  \/ WriteCRLF(c)

Next ==
  \/ MainStep
  \/ \E c \in Conns, p \in Paths, v \in Versions : Accept(c, p, v)
  \/ \E c \in Conns : PeerDisconnect(c)
  \/ \E c \in Conns : HandlerStep(c)

Spec == Init /\ [][Next]_vars

\* Fairness: the operating system schedules every handler thread that can run.
FairSpec == Spec /\ \A c \in Conns : WF_vars(HandlerStep(c))

\* The life of the server object over the runs of the program, without
\* viewers: every file system a first run can find, start(), stop() and the
\* calls of stop() after the first, and the runs after the first.
LifecycleInit == Constructed /\ \E fs \in FileSystems : FirstRun(fs)

LifecycleNext ==
  \/ MainStep
  \/ StopAgain
  \/ Restart

LifecycleSpec == LifecycleInit /\ [][LifecycleNext]_vars

\* The server run with --http-only (main(), line 445), with its viewers and
\* with the calls of stop() after the first.  With use_https false start()
\* skips lines 331-348, and GenerateCert and SetupSSLContext have no step.
HttpOnlyInit == Init /\ ~use_https

HttpOnlyNext ==
  \/ ProvisionTLS
  \/ StartHTTPS
  \/ StartHTTP
  \/ KeyboardInterrupt
  \/ StopHTTPS
  \/ StopHTTP
  \/ CapRelease
  \/ ProcessExit
  \/ StopAgain
  \/ \E c \in Conns, p \in Paths, v \in Versions : Accept(c, p, v)
  \/ \E c \in Conns : PeerDisconnect(c)
  \/ \E c \in Conns : HandlerStep(c)

HttpOnlySpec == HttpOnlyInit /\ [][HttpOnlyNext]_vars

\* ------------------------------------------------------------- properties
StreamConns == {c \in Conns : path[c] = "/stream"}
WritePcs == {"w_boundary", "w_headers", "w_body", "w_crlf"}
FetchPcs == {"generate", "count", "read"}
\* stop() has been invoked.
StopPcs == {"stop_https", "stop_http", "cap_release", "stopped"}
StopInvoked ==
  \/ mainpc \in StopPcs
  \/ mainpc = "crashed"
  \/ mainpc = "exited" /\ exitCode = 0

PartKinds == <<"boundary", "Content-Type", "Content-Length", "blank", "body", "crlf">>
PartLen == Len(PartKinds)

\* The tokens a stream connection carries after what its handler wrote as
\* the preamble.
Parts(c) ==
  IF c \in StreamConns THEN SubSeq(out[c], Len(Preamble(c)) + 1, Len(out[c]))
                       ELSE <<>>

\* C1 (the claim as stated): on a stream-path connection, whatever request
\* opened it, every part is the boundary literal, the header Content-Type:
\* image/jpeg, the header Content-Length: N, a blank line, exactly N bytes of
\* the buffer encoded in that tick and a CRLF, in this order with nothing in
\* between; the stream is a sequence of such parts, the last one cut only
\* where a write failed or is still to come.
C1_PartFormat ==
  \A c \in StreamConns :
    LET p == Parts(c) IN
      /\ \A i \in 1..Len(p) :
           LET j == (i - 1) % PartLen
               b == i - j
           IN /\ p[i].k = PartKinds[j + 1]
              /\ (j = 0) => p[i].s = "--frame"
              /\ (j = 1) => p[i].s = "image/jpeg"
              /\ (j = 4) => /\ p[b + 2].n = p[i].n
                            /\ p[i].n = p[i].buf.len
                            /\ p[i].n > 0
      /\ Len(p) % PartLen \in {0, 1, 4, 5}
      /\ pc[c] \in {"get_frame", "generate", "count", "read", "got", "w_boundary"}
           => Len(p) % PartLen = 0
      /\ pc[c] = "w_headers" => Len(p) % PartLen = 1
      /\ pc[c] = "w_body" => Len(p) % PartLen = 4 /\ p[Len(p) - 1].n = buffer[c].len
      /\ pc[c] = "w_crlf" => Len(p) % PartLen = 5 /\ p[Len(p)].buf = buffer[c]

Kinds(s) == {s[i].k : i \in DOMAIN s}
Multipart(s) ==
  \E i \in DOMAIN s : s[i].k = "Content-Type"
                      /\ s[i].s = "multipart/x-mixed-replace; boundary=frame"
\* The preamble of a stream response: status 200, the multipart content type,
\* the three cache-disabling headers, the blank line.
PreambleKinds ==
  <<"status", "Content-Type", "Cache-Control", "Pragma", "Expires", "blank">>
IsPreamble(s) ==
  /\ Len(s) = Len(PreambleKinds)
  /\ \A i \in DOMAIN s : s[i].k = PreambleKinds[i]
  /\ s[1].n = 200
  /\ Multipart(s)

\* C2 (the claim as stated): Negotiating -> Streaming -> Closed.  A GET for
\* /stream emits the preamble once, before any part, and enters Streaming; a
\* GET for / emits the 200 text/html page and closes; any other path emits 404
\* and closes; a connection that did not ask for /stream is never Streaming,
\* never gets the multipart content type and never gets a part.
C2_StateMachine ==
  \A c \in Conns :
    /\ state[c] \in {"Idle", "Negotiating"} => out[c] = <<>>
    /\ state[c] = "Streaming" => path[c] = "/stream"
    /\ path[c] = "/stream" /\ state[c] = "Streaming" =>
         /\ Len(out[c]) >= Len(PreambleKinds)
         /\ IsPreamble(SubSeq(out[c], 1, Len(PreambleKinds)))
         /\ LET rest == SubSeq(out[c], Len(PreambleKinds) + 1, Len(out[c]))
            IN "status" \notin Kinds(rest) /\ ~Multipart(rest)
    /\ path[c] # "/stream" =>
         /\ state[c] # "Streaming"
         /\ ~Multipart(out[c])
         /\ Kinds(out[c]) \cap {"boundary", "body"} = {}
         /\ state[c] = "Closed" /\ raised[c] = "None" =>
              /\ out[c] # <<>>
              /\ out[c][1].k = "status"
              /\ IF path[c] = "/"
                   THEN out[c][1].n = 200 /\ Len(out[c]) >= 2
                                          /\ out[c][2].s = "text/html"
                   ELSE out[c][1].n = 404

\* C3 (the claim as stated): once stop() has completed, no connection starts
\* another tick and nothing more is written on any connection.
C3_StopEndsStreaming ==
  [][mainpc = "stopped" =>
       \A c \in Conns : /\ ~(pc[c] = "get_frame" /\ pc'[c] \in FetchPcs \cup {"got"})
                        /\ out'[c] = out[c]]_vars

\* C4 (the claim as stated): a streaming connection whose peer has gone is
\* closed eventually (or the process has ended), in every camera state.
C4_DisconnectEndsLoop ==
  \A c \in Conns :
    [](state[c] = "Streaming" /\ peerGone[c] => <>(state[c] = "Closed" \/ ~Alive))

\* C5: a handler is at the writes of a part only with a fetched frame that was
\* encoded successfully, the buffer being that frame's; a tick whose fetch was
\* Unavailable or whose encoding failed writes nothing, leaves the connection
\* in Streaming and the server as it is, and goes to the next fetch.
C5_SkipWritesNothing ==
  /\ [](\A c \in Conns :
          pc[c] \in WritePcs =>
            /\ frame[c] # NoFrame
            /\ ret[c]
            /\ buffer[c] = imencode(frame[c], c).buffer
            /\ buffer[c] # NoBuffer)
  /\ [][\A c \in Conns :
          /\ out'[c] # out[c] => pc[c] \in WritePcs \cup {"do_GET"}
          /\ (pc[c] = "got" /\ (frame[c] = NoFrame \/ ~imencode(frame[c], c).ret)
                /\ pc'[c] # pc[c])
               => /\ out' = out
                  /\ state'[c] = "Streaming"
                  /\ pc'[c] = "get_frame"
                  /\ <<serverVars, cameraVars>>' = <<serverVars, cameraVars>>]_vars

\* C5 witness: after a part was delivered, one connection's fetch has returned
\* Unavailable while another connection holds a frame the encoder rejects.
C5_Witness ==
  \E c, d \in Conns :
    /\ pc[c] = "got" /\ frame[c] = NoFrame /\ Len(Parts(c)) >= PartLen
    /\ pc[d] = "got" /\ frame[d] # NoFrame /\ ~imencode(frame[d], d).ret

\* C6: a stream connection is closed only after a write on it failed or after
\* stop() was invoked; with the peer connected and the server running the
\* loop does not end.
C6_LeavesOnlyOnFailureOrStop ==
  \A c \in StreamConns :
    /\ state[c] = "Closed" =>
         \/ raised[c] = "BrokenPipeError" /\ peerGone[c]
         \/ StopInvoked
    /\ ~peerGone[c] /\ ~StopInvoked => state[c] \in {"Negotiating", "Streaming"}

\* C6 witness: the server is running, one connection was closed by a failed
\* write after it had received a part, and another one has skipped a tick (no
\* frame) and is still streaming.
C6_Witness ==
  \E c, d \in StreamConns :
    /\ mainpc = "running"
    /\ state[c] = "Closed" /\ raised[c] = "BrokenPipeError"
    /\ Len(Parts(c)) >= PartLen
    /\ state[d] = "Streaming" /\ pc[d] = "got" /\ frame[d] = NoFrame

\* C7: fetches are mutually exclusive: at most one handler is inside the
\* device read or the generator (its counter update included), and it holds
\* the lock.
C7_FetchesExclusive ==
  /\ Cardinality({c \in Conns : pc[c] \in FetchPcs}) <= 1
  /\ \A c \in Conns : pc[c] \in FetchPcs => lock = c

\* C7 witness: a handler of one listener is inside the generator, after an
\* earlier fetch, while a handler of the other listener waits to fetch.
C7_Witness ==
  \E c, d \in Conns :
    /\ pc[c] = "generate" /\ pc[d] = "get_frame" /\ frame_count > 0
    /\ via[c] # via[d]

\* C8 (the claim as stated): release() of the device handle never runs while a
\* handler is inside the device read.
C8_ReleaseExcludesRead ==
  ~(mainpc = "cap_release" /\ \E c \in Conns : pc[c] = "read")

\* C9: a handler holds the lock only inside its fetch, never while encoding,
\* writing or sleeping; so a handler that is at a write does not keep another
\* one from fetching.
C9_LockOnlyInFetch ==
  /\ lock \in Conns \cup {NoHolder}
  /\ \A c \in Conns : lock = c => pc[c] \in FetchPcs
  /\ \A c, d \in Conns :
       (c # d /\ pc[c] \in WritePcs \cup {"got"} /\ pc[d] = "get_frame" /\ Alive
          /\ \A e \in Conns : pc[e] \notin FetchPcs)
         => ENABLED GetFrame(d)

\* C9 witness: one handler is in the middle of writing a part while another
\* one, which has already delivered a part, holds the lock in its fetch.
C9_Witness ==
  \E c, d \in Conns :
    /\ pc[c] = "w_body"
    /\ lock = d /\ Len(Parts(d)) >= PartLen

\* The pieces of a part as the handler of c writes them: its three writes
\* and, between the first two, what the header buffer holds at its flush.
PiecesOf(c) ==
  IF request_version[c] # "HTTP/0.9" THEN PartKinds
                                      ELSE <<"boundary", "body", "crlf">>

\* C10: every token on a connection was written by that connection's own
\* handler, every body is a buffer that handler encoded, and the pieces of
\* the parts follow each other in the order the handler writes them, one part
\* after the other.
C10_NoSplicing ==
  \A c \in Conns :
    /\ \A i \in DOMAIN out[c] :
         /\ out[c][i].by = c
         /\ out[c][i].k = "body" => out[c][i].buf.by = c
    /\ \A i \in 1..Len(Parts(c)) :
         Parts(c)[i].k = PiecesOf(c)[((i - 1) % Len(PiecesOf(c))) + 1]
    /\ state[c] = "Idle" => out[c] = <<>>

\* C10 witness: two stream connections are both in the middle of a part.
C10_Witness ==
  /\ pc["c1"] = "w_body" /\ pc["c2"] = "w_crlf"
  /\ request_version["c1"] # request_version["c2"]
  /\ out["c1"] # out["c2"]

\* The variables of the handler of connection c.
Handler(c) ==
  <<state[c], pc[c], path[c], request_version[c], via[c], frame[c], ret[c],
    buffer[c], out[c], raised[c], peerGone[c]>>

\* Connection c was closed by a failed write.
Disconnected(c) == state[c] = "Closed" /\ raised[c] = "BrokenPipeError"

\* C11: the step in which a failed write closes a connection changes nothing
\* of any other connection, of the listeners and the server, of the camera
\* (mode, device handle, counter, lock); and with a connection closed that
\* way, the handler of another streaming connection whose peer reads can take
\* its next step.
C11_DisconnectIsolated ==
  [][\A c \in Conns :
       /\ (~Disconnected(c) /\ Disconnected(c)') =>
            /\ \A d \in Conns \ {c} : Handler(d)' = Handler(d)
            /\ <<serverVars, cameraVars, fileVars>>' = <<serverVars, cameraVars, fileVars>>
       /\ Disconnected(c) =>
            \A d \in Conns \ {c} :
              (Alive /\ state[d] = "Streaming" /\ ~peerGone[d]
                 /\ TotalParts(Conns) < MaxParts)
                => ENABLED HandlerStep(d)]_vars

\* C11 witness: after a failed write closed one connection in the middle of a
\* part, the other connection is being sent the body of a part.
C11_Witness ==
  \E c, d \in StreamConns :
    /\ Disconnected(c) /\ Len(Parts(c)) % PartLen # 0
    /\ server[via[c]] = "serving" /\ server[via[d]] = "serving"
    /\ state[d] = "Streaming" /\ pc[d] = "w_body" /\ ~peerGone[d]

\* C12: a camera whose device is not open, release() not having been called,
\* is in simulation mode (the open failed or was not tried: the mode was set
\* at construction); no step sets simulation_mode back to false; and in
\* simulation mode every fetch goes to the generator and returns a synthetic
\* frame, never None, whatever stop() and release() have done.
C12_FallbackPermanent ==
  /\ []((cap = "None" \/ (~capOpened /\ stops = 0)) => simulation_mode)
  /\ [](simulation_mode =>
          \A c \in Conns :
            /\ pc[c] # "read"
            /\ raised[c] # "cv2.error"
            /\ pc[c] = "got" => frame[c] # NoFrame /\ frame[c].src = "synthetic")
  /\ [][simulation_mode => simulation_mode']_vars

\* C12 witness: the device could not be opened; after stop() has released the
\* handle a fetch has returned a synthetic frame, an earlier one having been
\* delivered as a part.
C12_Witness ==
  \E c \in StreamConns :
    /\ simulation_mode /\ cap = "VideoCapture" /\ ~capOpened
    /\ mainpc = "stopped"
    /\ pc[c] = "got" /\ frame[c].src = "synthetic" /\ frame[c].seq > 0
    /\ Len(Parts(c)) >= PartLen

\* start() is in its TLS provisioning, lines 328-348.
ProvisionPcs == {"start", "generate", "setup_ssl"}

\* C13 (the claim as stated): no step of the TLS provisioning ends the
\* process or touches the HTTP setting: a failing step disables HTTPS, and
\* start() goes on to the listeners, where HTTPS is enabled only with a TLS
\* configuration built.
C13_ProvisioningDegrades ==
  /\ [][(mainpc \in ProvisionPcs) =>
          /\ mainpc' \in ProvisionPcs \cup {"start_https"}
          /\ use_http' = use_http
          /\ exitCode' = exitCode]_vars
  /\ [](mainpc = "start_https" => (use_https => ssl_context))

\* C14 (the claim as stated): start() is never in its sleep loop, the running
\* state, without a listener serving.
C14_NeverRunsWithoutListener ==
  mainpc = "running" => \E l \in Listeners : server[l] = "serving"

\* start() is at the creation of a listener, lines 350-376.
ListenerPcs == {"start_https", "start_http"}

\* C15 (the claim as stated): a failed bind ends the process only when no
\* enabled listener is left: not with the HTTPS listener serving, and not
\* before the HTTP listener, if enabled, has been tried.
C15_BindFailureLocal ==
  [][(mainpc \in ListenerPcs /\ mainpc' = "exited") =>
       /\ server["https"] # "serving"
       /\ mainpc = "start_https" => ~use_http]_vars

\* The main thread is inside stop().
InStop == mainpc \in {"stop_https", "stop_http", "cap_release"}

\* C16: inside stop(), the first call or a later one, with two, one or no
\* listener started, the main thread can always take its next step, and no
\* step of stop() ends the process; when stop() has returned no listener is
\* serving and the device is not open; and no step of a call after the first
\* changes the listeners or the camera.
C16_StopIdempotent ==
  /\ [](InStop => ENABLED MainStep)
  /\ [](mainpc = "stopped" =>
          /\ \A l \in Listeners : server[l] \in {"None", "closed"}
          /\ ~capOpened)
  /\ [][InStop => (mainpc' \in StopPcs /\ exitCode' = exitCode)]_vars
  /\ [][(InStop /\ stops > 1) =>
          (server' = server /\ cameraVars' = cameraVars)]_vars

\* C16 witness: stop() has returned a second time, with both listeners
\* closed and the device, which was open, released.
C16_Witness ==
  /\ mainpc = "stopped" /\ stops = MaxStops
  /\ \A l \in Listeners : server[l] = "closed"
  /\ ~simulation_mode /\ cap = "VideoCapture" /\ ~capOpened

\* release() has returned at least once.
Released == stops > 1 \/ (stops = 1 /\ mainpc = "stopped")

\* C17: release(), called for the first time or again, on a camera with an
\* open device, with a device that failed to open or with no handle at all,
\* always has its next step and returns to stop(); a call after the first
\* changes nothing of the camera; and once release() has returned, a fetch
\* that begins on a device-mode camera returns None at once: no read of the
\* device, no exception.
C17_ReleaseIdempotent ==
  /\ [](mainpc \in {"stop_http", "cap_release"} => ENABLED MainStep)
  /\ [][(mainpc = "cap_release" /\ mainpc' \in StopPcs \ {"cap_release"}) =>
          /\ mainpc' = "stopped"
          /\ ~capOpened'
          /\ stops > 1 => cameraVars' = cameraVars]_vars
  /\ [][\A c \in Conns :
          (Released /\ ~simulation_mode
             /\ pc[c] = "get_frame" /\ pc'[c] # "get_frame")
            => /\ pc'[c] = "got"
               /\ frame'[c] = NoFrame
               /\ state'[c] = "Streaming"
               /\ raised'[c] = "None"]_vars

\* C17 witness: release() has returned for the second time on a device that
\* was open, and a fetch of a streaming connection has then returned None.
C17_Witness ==
  \E c \in StreamConns :
    /\ ~simulation_mode /\ ~capOpened
    /\ mainpc = "stopped" /\ stops = MaxStops
    /\ state[c] = "Streaming" /\ pc[c] = "got" /\ frame[c] = NoFrame
    /\ Len(Parts(c)) >= PartLen

\* C18: a file is written only by a start() with HTTPS enabled that found
\* the certificate or the key missing, and such a start() (its directory
\* there or created) does call the generator; a start() that finds both
\* files goes on to load them, and no step of any run changes a file once
\* both exist: of two starts at most one generates the pair.
C18_GenerateIffMissing ==
  /\ [][(cert_file' # cert_file \/ key_file' # key_file) =>
          /\ mainpc = "generate"
          /\ use_https
          /\ ~cert_file.exists \/ ~key_file.exists]_vars
  /\ [][(mainpc = "start" /\ mainpc' \in {"generate", "setup_ssl", "start_https"}) =>
          /\ mainpc' = "generate" <=>
               (use_https /\ (~cert_file.exists \/ ~key_file.exists))
          /\ mainpc' = "setup_ssl" <=>
               (use_https /\ cert_file.exists /\ key_file.exists)]_vars
  /\ [][(cert_file.exists /\ key_file.exists) =>
          (cert_file' = cert_file /\ key_file' = key_file)]_vars

\* C18 witness: the second run serves HTTPS with the pair the first run
\* generated.
C18_Witness ==
  /\ run = 2
  /\ cert_file = PEM(1) /\ key_file = PEM(1)
  /\ server["https"] = "serving"

\* C19: while the HTTPS listener is serving, the certificate directory, the
\* certificate file and the key file exist, the two files are the
\* certificate and the key of one pair, and start() holds the TLS
\* configuration built from them; the listener starts serving only in the
\* step of start() that follows the provisioning.
C19_TLSAfterProvisioning ==
  /\ [](server["https"] = "serving" =>
          /\ ssl_context
          /\ cert_dir
          /\ cert_file.exists /\ key_file.exists
          /\ cert_file.pair = key_file.pair)
  /\ [](mainpc \in ProvisionPcs => server["https"] = "None")
  /\ [][(server["https"] # "serving" /\ server'["https"] = "serving") =>
          (mainpc = "start_https" /\ ssl_context /\ use_https)]_vars

\* C19 witness: the HTTPS listener is serving with the pair generated in this
\* run, the first one.
C19_Witness ==
  /\ server["https"] = "serving"
  /\ run = 1
  /\ cert_file = PEM(run) /\ key_file = PEM(run)

\* C20: release() is never running or done while a listener is serving; a
\* listener once stopped stays stopped; and from the moment stop() has
\* returned no listener serves, so that no connection is accepted and no
\* handler created.
C20_ShutdownOrder ==
  /\ []((mainpc \in {"cap_release", "stopped"} \/ (mainpc = "exited" /\ stops > 0)) =>
          /\ \A l \in Listeners : server[l] # "serving"
          /\ ~ENABLED (\E c \in Conns, p \in Paths, v \in Versions : Accept(c, p, v)))
  /\ [](mainpc = "stop_http" => server["https"] # "serving")
  /\ [][\A l \in Listeners : server[l] = "closed" => server'[l] = "closed"]_vars
  /\ [][(capOpened /\ ~capOpened') =>
          \A l \in Listeners : server[l] # "serving"]_vars

\* C20 witness: stop() has returned with both listeners closed and the device
\* released; a viewer never connected to one listener, and cannot any more,
\* while the connection accepted by the other before stop() is still streaming.
C20_Witness ==
  /\ mainpc = "stopped"
  /\ \A l \in Listeners : server[l] = "closed"
  /\ cap = "VideoCapture" /\ ~simulation_mode /\ ~capOpened
  /\ \E c, d \in Conns : state[c] = "Idle" /\ state[d] = "Streaming"

\* The camera the handler of connection c fetches from, line 130:
\* self.server.virtual_camera.
CameraOf(c) == virtual_camera[via[c]]

\* C21: every listener that was started holds the one VirtualCamera made by
\* the constructor, from the step that starts it and as long as the process
\* runs; and every handler, of either listener, fetches from that instance.
C21_OneFrameSource ==
  /\ [](\A l \in Listeners :
          /\ server[l] = "None" => virtual_camera[l] = "None"
          /\ server[l] # "None" => virtual_camera[l] = "self.virtual_camera")
  /\ [](\A c \in Conns : state[c] # "Idle" => CameraOf(c) = "self.virtual_camera")
  /\ [](\A c, d \in Conns :
          (state[c] # "Idle" /\ state[d] # "Idle") => CameraOf(c) = CameraOf(d))
  /\ [][\A l \in Listeners :
          virtual_camera[l] # "None" => virtual_camera'[l] = virtual_camera[l]]_vars

\* C21 witness: a handler of the HTTPS listener is inside a fetch while a
\* handler of the HTTP listener, which has fetched before, waits for the lock.
C21_Witness ==
  \E c, d \in StreamConns :
    /\ via[c] = "https" /\ via[d] = "http"
    /\ pc[c] \in FetchPcs /\ lock = c
    /\ pc[d] = "get_frame" /\ Len(Parts(d)) >= PartLen

\* C22: frame_count starts at 0 and always equals the number of synthetic
\* fetches that have returned; a step changes it only by adding 1, and only
\* as the return of a synthetic fetch, each of which does add 1; in device
\* mode (reads, None results, release()) it stays 0.
C22_CounterCountsFetches ==
  /\ [](frame_count = fetched)
  /\ [](mainpc = "start" => frame_count = 0)
  /\ [](~simulation_mode => frame_count = 0)
  /\ [][frame_count' # frame_count =>
          /\ frame_count' = frame_count + 1
          /\ simulation_mode
          /\ \E c \in Conns : /\ pc[c] = "count" /\ pc'[c] = "got"
                               /\ frame'[c].src = "synthetic"]_vars
  /\ [][\A c \in Conns : (pc[c] = "count" /\ pc'[c] = "got") =>
                            frame_count' = frame_count + 1]_vars

\* C22 witness: the two viewer loops have fetched one after the other: one
\* handler is writing frame 0 while the other has just been returned frame 1.
C22_Witness ==
  \E c, d \in Conns :
    /\ c # d
    /\ pc[c] \in WritePcs /\ frame[c].src = "synthetic" /\ frame[c].seq = 0
    /\ pc[d] = "got" /\ frame[d].src = "synthetic" /\ frame[d].seq = 1
    /\ frame_count = 2

\* The places of the synthetic bodies on the socket of connection c.
SyntheticBodies(c) ==
  {i \in DOMAIN out[c] : out[c][i].k = "body" /\ out[c][i].buf.src = "synthetic"}

\* The synthetic frame a handler holds after its fetch has returned.
Holds(c) == pc[c] \in WritePcs \cup {"got"} /\ frame[c].src = "synthetic"

\* C23: in synthetic mode no two delivered bodies, on one connection or on
\* two, carry the same counter value; on one connection the counter values
\* increase strictly from part to part; and two handlers never hold frames
\* of the same counter value.
C23_FramesConsumed ==
  /\ \A c, d \in Conns : \A i \in SyntheticBodies(c), j \in SyntheticBodies(d) :
       (c # d \/ i # j) => out[c][i].buf.seq # out[d][j].buf.seq
  /\ \A c \in Conns : \A i, j \in SyntheticBodies(c) :
       i < j => out[c][i].buf.seq < out[c][j].buf.seq
  /\ \A c, d \in Conns :
       (c # d /\ Holds(c) /\ Holds(d)) => frame[c].seq # frame[d].seq

\* C23 witness: each of two connections has been delivered a synthetic frame,
\* and a third frame has been fetched for one of them.
C23_Witness ==
  \E c, d \in Conns :
    /\ c # d
    /\ SyntheticBodies(c) # {} /\ SyntheticBodies(d) # {}
    /\ pc[c] = "got" /\ Holds(c)

\* C24 (the claim as stated): whenever the certificate file and the key file
\* both exist, they are the certificate and the key of one pair.
C24_PairMatches ==
  (cert_file.exists /\ key_file.exists) => cert_file.pair = key_file.pair

\* C25: start() enters the provisioning steps that follow line 330 only with
\* HTTPS enabled; a start() with HTTPS not enabled goes from line 330 to the
\* listeners with the directory, the files and ssl_context as they were;
\* outside the provisioning no step of a run touches the directory or a file
\* or builds a TLS configuration; and the HTTPS listener is started only with
\* HTTPS enabled.
C25_HttpOnlyNoProvisioning ==
  /\ [](mainpc \in {"generate", "setup_ssl"} => use_https)
  /\ [][(mainpc = "start" /\ ~use_https /\ mainpc' # "start") =>
          /\ mainpc' = "start_https"
          /\ <<cert_dir, cert_file, key_file>>' = <<cert_dir, cert_file, key_file>>
          /\ ~ssl_context'
          /\ ~use_https']_vars
  /\ [][(mainpc \notin ProvisionPcs) =>
          /\ <<cert_dir, cert_file, key_file>>' = <<cert_dir, cert_file, key_file>>
          /\ ssl_context' => ssl_context
          /\ use_https' /\ run' = run => use_https]_vars
  /\ [][(server["https"] = "None" /\ server'["https"] # "None") =>
          (use_https /\ ssl_context)]_vars

\* C25 witness: an HTTP-only run is serving HTTP while the directory and the
\* files are not there.
C25_Witness ==
  /\ mainpc = "running" /\ ~use_https /\ ~ssl_context
  /\ server["http"] = "serving" /\ server["https"] = "None"
  /\ ~cert_dir /\ ~cert_file.exists /\ ~key_file.exists

====
